---- MODULE Spec2Model ----
(***************************************************************************)
(* Navigation / indexing core of the Quran reader:                         *)
(*   core_functions/quran_class.py  (QuranConst, quran_mgr)                *)
(* A text is a sequence of symbols, one element per character; len() of    *)
(* the source is Len() here.                                               *)
(***************************************************************************)
EXTENDS Integers, Sequences, FiniteSets, TLC

VARIABLES
    self,   \* the quran_mgr object: its attributes, and in ret and exc the value
            \* returned and the exception raised by the last call on it
    last    \* the last call: its name and its arguments

vars == <<self, last>>

-----------------------------------------------------------------------------
(* Python values *)

NoExc == "none"
Empty == << >>

\* an int or the bool False, as get_range's arguments are; False == 0 in arithmetic
PyFalse == [tag |-> "bool", v |-> 0]
PyInt(n) == [tag |-> "int", v |-> n]
IsFalse(x) == x.tag = "bool"
Truthy(x) == x.v # 0

\* an optional int: None or a value
NoneInt == [isNone |-> TRUE, value |-> 0]
SomeInt(n) == [isNone |-> FALSE, value |-> n]

\* returned values: a str, None, get_by_ayah_number's dict, get_ayah_info's row
RetStr(t) == [kind |-> "str", text |-> t, ayah_text |-> Empty, info |-> Empty]
RetNone == [kind |-> "None", text |-> Empty, ayah_text |-> Empty, info |-> Empty]
RetDict(a, f) == [kind |-> "dict", text |-> f, ayah_text |-> a, info |-> Empty]
RetRow(r) == [kind |-> "row", text |-> Empty, ayah_text |-> Empty, info |-> r]

Max2(a, b) == IF a > b THEN a ELSE b
Min2(a, b) == IF a < b THEN a ELSE b

Digit == <<"0", "1", "2", "3", "4", "5", "6", "7", "8", "9">>

\* str(n) of an int, as f"{n}" formats it
RECURSIVE Str(_)
Str(n) ==
    IF n < 0 THEN <<"-">> \o Str(0 - n)
    ELSE IF n < 10 THEN <<Digit[n + 1]>>
    ELSE Str(n \div 10) \o <<Digit[(n % 10) + 1]>>

\* s[i:] and s[:i] of a Python string, 0 <= i
Drop(s, i) == SubSeq(s, i + 1, Len(s))
Take(s, i) == SubSeq(s, 1, i)

StartsWith(s, p) == Len(p) <= Len(s) /\ Take(s, Len(p)) = p

\* where old occurs in s: the offsets k with s[k:k+len(old)] == old
Occurrences(s, old) ==
    {k \in 0..(Len(s) - Len(old)) : SubSeq(s, k + 1, k + Len(old)) = old}

\* str.replace(old, new), old not empty: every non-overlapping occurrence,
\* left to right
RECURSIVE Replace(_, _, _)
Replace(s, old, new) ==
    LET found == Occurrences(s, old)
    IN  IF found = {} THEN s
        ELSE LET k == CHOOSE i \in found : \A j \in found : i <= j
             IN  Take(s, k) \o new \o Replace(Drop(s, k + Len(old)), old, new)

\* str.lstrip("\n"), str.rstrip("\n"), str.strip("\n")
RECURSIVE LStripNL(_)
LStripNL(s) ==
    IF s # Empty /\ Head(s) = "\n" THEN LStripNL(Tail(s)) ELSE s

RECURSIVE RStripNL(_)
RStripNL(s) ==
    IF s # Empty /\ s[Len(s)] = "\n" THEN RStripNL(Take(s, Len(s) - 1)) ELSE s

\* str.strip(): blanks stripped from the end as well as line breaks
RECURSIVE StripNL_whitespace(_)
StripNL_whitespace(s) ==
    IF s # Empty /\ s[Len(s)] \in {"\n", " "}
        THEN StripNL_whitespace(Take(s, Len(s) - 1))
        ELSE LStripNL(s)

StripNL(s) == RStripNL(LStripNL(s))

-----------------------------------------------------------------------------
(* QuranConst *)

max_page == 604
max_surah_number == 114
max_juz == 30
max_hizb == 60
max_hizb_quarter == 240
_max == <<max_page, max_surah_number, max_hizb_quarter, max_hizb, max_juz>>

Categories == 0..4

\* QuranConst.get_max: a Python tuple index; -5..-1 count from the end
get_max(category_number) ==
    IF category_number \in 0..4
        THEN [exc |-> NoExc, ret |-> _max[category_number + 1]]
    ELSE IF category_number \in -5..-1
        THEN [exc |-> NoExc, ret |-> _max[category_number + 6]]
    ELSE [exc |-> "IndexError", ret |-> 0]

\* QuranConst._category_labels / get_category_label
_category_labels == <<"safha", "sura", "rub", "hizb", "juz">>

get_category_label(category_number) ==
    IF category_number \in 0..4
        THEN [exc |-> NoExc, ret |-> _category_labels[category_number + 1]]
    ELSE IF category_number \in -5..-1
        THEN [exc |-> NoExc, ret |-> _category_labels[category_number + 6]]
    ELSE [exc |-> "IndexError", ret |-> ""]

-----------------------------------------------------------------------------
(* The storage backend: table quran, one row per verse, ordered by number. *)
(* Every value 1..max of every coordinate owns at least one verse, and the *)
(* coordinates never decrease as number grows.                             *)

NumVerses == 720

\* the invocation phrase of get_text's replace(), one element per word or blank
Bismillah == <<"bismi", " ", "Allahi", " ", "alrrahmani", " ", "alrraheemi">>

SuraOf(n) ==
    IF n <= 7 THEN 1
    ELSE IF n <= 48 THEN 2
    ELSE 3 + ((n - 49) \div 6)

FirstOfSura(s) ==
    IF s = 1 THEN 1 ELSE IF s = 2 THEN 8 ELSE 49 + 6 * (s - 3)

PageOf(n) == IF n <= 232 THEN (n + 1) \div 2 ELSE n - 116
QuarterOf(n) == ((n - 1) \div 3) + 1
HizbOf(n) == ((n - 1) \div 12) + 1
JuzOf(n) == ((n - 1) \div 24) + 1

VerseBody(n) == <<"a">> \o Str(n)

\* a verse inside a chapter that ends with the invocation phrase
QuotingVerse == 10

VerseText(n) ==
    LET s == SuraOf(n)
    IN  IF n = QuotingVerse THEN VerseBody(n) \o <<" ">> \o Bismillah
        ELSE IF n # FirstOfSura(s) THEN VerseBody(n)
        ELSE IF s = 1 THEN Bismillah
        ELSE IF s = 9 THEN VerseBody(n)
        ELSE Bismillah \o <<" ">> \o VerseBody(n)

VerseRow(n) ==
    [text |-> VerseText(n),
     number |-> n,
     sura_name |-> <<"S">> \o Str(SuraOf(n)),
     sura_number |-> SuraOf(n),
     numberInSurah |-> n - FirstOfSura(SuraOf(n)) + 1,
     page |-> PageOf(n),
     hizbQuarter |-> QuarterOf(n),
     hizb |-> HizbOf(n),
     juz |-> JuzOf(n)]

\* a sequence given as a function, as the tuple of its values
Materialize(f) == SelectSeq(f, LAMBDA x : TRUE)

quran == Materialize([n \in 1..NumVerses |-> VerseRow(n)])

\* column name of each category, as the five selectors and get_by_ayah_number use it
Coord(r, c) ==
    CASE c = 0 -> r.page
      [] c = 1 -> r.sura_number
      [] c = 2 -> r.hizbQuarter
      [] c = 3 -> r.hizb
      [] c = 4 -> r.juz

\* SELECT * FROM quran WHERE <column of c> = v
SelectWhere(c, v) == SelectSeq(quran, LAMBDA r : Coord(r, c) = v)

\* the same query, answered from a table built once
UnitsOf(c) == Materialize([v \in 1.._max[c + 1] |-> SelectWhere(c, v)])

UnitRows == <<UnitsOf(0), UnitsOf(1), UnitsOf(2), UnitsOf(3), UnitsOf(4)>>

SelectUnit(c, v) == IF v \in 1.._max[c + 1] THEN UnitRows[c + 1][v] ELSE Empty

\* SELECT * FROM quran WHERE number BETWEEN a AND b
SelectBetween(a, b) ==
    LET lo == Max2(a, 1)
        hi == Min2(b, NumVerses)
    IN  IF lo > hi THEN Empty ELSE [i \in 1..(hi - lo + 1) |-> quran[lo + i - 1]]

\* SELECT * FROM quran WHERE number >= a
SelectFrom(a) == SelectBetween(a, NumVerses)

\* SELECT ... FROM quran WHERE number = n: the rows (one or none)
SelectNumber(n) == IF n \in 1..NumVerses THEN <<quran[n]>> ELSE Empty

\* select number from quran WHERE sura_number = s
NumbersOfSura(s) ==
    IF s \in 1..max_surah_number
        THEN [i \in 1..Len(SelectUnit(1, s)) |-> SelectUnit(1, s)[i].number]
        ELSE Empty

-----------------------------------------------------------------------------
(* AyahData, the Position Index: a list of spans in insertion order *)

\* quran_mgr.ayah_data is None until the first render, then an AyahData
NoAyahData == [isNone |-> TRUE, spans |-> Empty]
AyahData(spans) == [isNone |-> FALSE, spans |-> spans]

\* AyahData.insert
AyahData_insert(idx, ayah_number, first_position, last_position) ==
    Append(idx, [ayah |-> ayah_number, first |-> first_position,
                 last |-> last_position])

\* AyahData.get: the verse whose span holds the offset, the earliest-ending
\* one if several do; None if no span holds it
AyahData_get(idx, position) ==
    LET hits == {i \in 1..Len(idx) :
                    idx[i].first <= position /\ position <= idx[i].last}
    IN  IF hits = {} THEN NoneInt
        ELSE LET i == CHOOSE j \in hits : \A k \in hits : idx[j].last <= idx[k].last
             IN  SomeInt(idx[i].ayah)

\* AyahData.get_position: the start offset of a verse's span, None if absent
AyahData_get_position(idx, ayah_number) ==
    LET hits == {i \in 1..Len(idx) : idx[i].ayah = ayah_number}
    IN  IF hits = {} THEN NoneInt
        ELSE SomeInt(idx[CHOOSE j \in hits : \A k \in hits : j <= k].first)

-----------------------------------------------------------------------------
(* quran_mgr: each method maps the object's state s to the state after the *)
(* call, with the returned value in ret and a raised exception in exc.     *)

\* the one element of a set of one element
Only(S) == CHOOSE x \in S : TRUE

Return(s, value) == [s EXCEPT !.ret = value, !.exc = NoExc]
Raise(s, name) == [s EXCEPT !.ret = RetNone, !.exc = name]

\* data_list = [(row[0], ..., row[10], None, None) for row in rows]
RowsToDataList(rows) == rows

\* AyahText without the replace() that breaks the line after the phrase
AyahText_no_break(s, ayah) ==
    LET t0 == ayah.text
        ayah_number == ayah.numberInSurah
        start_point_text ==
            ayah.sura_name \o <<" ">> \o Str(ayah.sura_number) \o <<"\n", "|", "\n">>
        t1 == IF ayah_number = 1 THEN start_point_text \o t0 ELSE t0
        t2 == IF s.show_ayah_number
                THEN t1 \o <<" ", "(">> \o Str(ayah_number) \o <<")">>
                ELSE t1
    IN  IF s.aya_to_line THEN t2 \o <<"\n">> ELSE t2 \o <<" ">>

\* the body of get_text's loop up to "text += ayah_text": the text of one verse
AyahText(s, ayah) ==
    LET t0 == ayah.text
        ayah_number == ayah.numberInSurah
        start_point_text ==
            ayah.sura_name \o <<" ">> \o Str(ayah.sura_number) \o <<"\n", "|", "\n">>
        t1 == IF ayah_number = 1
                THEN IF ayah.sura_number # 1
                        THEN Replace(start_point_text \o t0,
                                     Bismillah \o <<" ">>, Bismillah \o <<"\n">>)
                        ELSE start_point_text \o t0
                ELSE t0
        t2 == IF s.show_ayah_number
                THEN t1 \o <<" ", "(">> \o Str(ayah_number) \o <<")">>
                ELSE t1
    IN  IF s.aya_to_line THEN t2 \o <<"\n">> ELSE t2 \o <<" ">>

\* SpanOf with last_position = current_position after the advance (no "- 1")
SpanOf_inclusive(ayah, ayah_text, current_position) ==
    [ayah |-> ayah.number,
     first |-> current_position,
     last |-> current_position + Len(ayah_text)]

\* SpanOf counting offsets from 1
SpanOf_one_based(ayah, ayah_text, current_position) ==
    [ayah |-> ayah.number,
     first |-> current_position + 1,
     last |-> current_position + Len(ayah_text)]

\* "Calculate the positions": the span of a verse text starting at current_position
SpanOf(ayah, ayah_text, current_position) ==
    [ayah |-> ayah.number,
     first |-> current_position,
     last |-> current_position + Len(ayah_text) - 1]

\* the verse texts of data_list, in the order the loop builds them
AyahTexts(s) ==
    Materialize([i \in 1..Len(s.data_list) |-> AyahText(s, s.data_list[i])])

\* texts[lo] + ... + texts[hi], and its length
RECURSIVE JoinRange(_, _, _)
JoinRange(texts, lo, hi) ==
    IF lo > hi THEN Empty
    ELSE IF lo = hi THEN texts[lo]
    ELSE LET mid == (lo + hi) \div 2
         IN  JoinRange(texts, lo, mid) \o JoinRange(texts, mid + 1, hi)

RECURSIVE LenRange(_, _, _)
LenRange(texts, lo, hi) ==
    IF lo > hi THEN 0
    ELSE IF lo = hi THEN Len(texts[lo])
    ELSE LET mid == (lo + hi) \div 2
         IN  LenRange(texts, lo, mid) + LenRange(texts, mid + 1, hi)

\* the spans the loop inserts for verses lo..hi, current_position being the
\* length of the text built before verse lo
RECURSIVE SpansRange(_, _, _, _, _)
SpansRange(s, texts, lo, hi, current_position) ==
    IF lo > hi THEN Empty
    ELSE IF lo = hi
        THEN LET span == SpanOf(s.data_list[lo], texts[lo], current_position)
             IN  AyahData_insert(Empty, span.ayah, span.first, span.last)
    ELSE LET mid == (lo + hi) \div 2
         IN  SpansRange(s, texts, lo, mid, current_position)
                \o SpansRange(s, texts, mid + 1, hi,
                              current_position + LenRange(texts, lo, mid))

\* get_text's loop over data_list, started with text text0 and index spans0:
\* "text += ayah_text" makes text the verse texts joined, and current_position
\* the length of the verse texts joined so far
GetTextLoop(s, text0, spans0) ==
    Only({[text |-> text0 \o JoinRange(texts, 1, Len(texts)),
           ayah_data |-> spans0 \o SpansRange(s, texts, 1, Len(texts), Len(text0))]
          : texts \in {AyahTexts(s)}})

\* get_text appending to the text and index of the previous render
get_text_appending(s) ==
    IF s.data_list = Empty THEN Return(s, RetStr(Empty))
    ELSE LET acc == GetTextLoop(s, s.text, s.ayah_data.spans)
             stripped == StripNL(acc.text)
         IN  Return([s EXCEPT !.text = stripped,
                              !.ayah_data = AyahData(acc.ayah_data)],
                    RetStr(stripped))

\* x is the object as the call finds it, acc the loop's text and index, and
\* stripped the text after strip("\n"): each is computed once
get_text(s) ==
    Only({IF x.data_list = Empty THEN Return(x, RetStr(Empty))
          ELSE Only({Only({Return([x EXCEPT !.text = stripped,
                                            !.ayah_data = AyahData(acc.ayah_data)],
                                  RetStr(stripped))
                           : stripped \in {StripNL(acc.text)}})
                     : acc \in {GetTextLoop(x, Empty, Empty)}})
          : x \in {s}})

\* the clamp also raising an index below 1 to 1
ClampPos_both_ends(pos, max) == IF pos > max THEN max ELSE IF pos < 1 THEN 1 ELSE pos

\* the selectors without their clamp
ClampPos_unclamped(pos, max) == pos

\* the clamp shared by the five selectors
ClampPos(pos, max) == IF pos > max THEN max ELSE pos

\* Selector querying the column of the next category
Selector_wrong_column(s, c, number) ==
    LET s1 == [s EXCEPT !.current_pos = ClampPos(number, _max[c + 1]),
                        !.max_pos = _max[c + 1],
                        !.type = c]
        s2 == [s1 EXCEPT !.data_list =
                    RowsToDataList(SelectUnit((c + 1) % 5, number))]
    IN  get_text(s2)

\* get_page, get_surah, get_quarter, get_hizb, get_juzz share one body:
\* c is the category tag the method assigns to self.type
Selector(s, c, number) ==
    LET s1 == [s EXCEPT !.current_pos = ClampPos(number, _max[c + 1]),
                        !.max_pos = _max[c + 1],
                        !.type = c]
        s2 == [s1 EXCEPT !.data_list =
                    RowsToDataList(SelectUnit(c, number))]
    IN  get_text(s2)

get_page(s, page_number) == Selector(s, 0, page_number)
get_surah(s, surah_number) == Selector(s, 1, surah_number)
get_quarter(s, quarter_number) == Selector(s, 2, quarter_number)
get_hizb(s, hizb_number) == Selector(s, 3, hizb_number)
get_juzz(s, juzz_number) == Selector(s, 4, juzz_number)

\* select(category, index) of the five categories: the selector of category c
select(s, c, index) ==
    CASE c = 0 -> get_page(s, index)
      [] c = 1 -> get_surah(s, index)
      [] c = 2 -> get_quarter(s, index)
      [] c = 3 -> get_hizb(s, index)
      [] c = 4 -> get_juzz(s, index)

\* Dispatch with the quarter and hizb branches exchanged
Dispatch_swapped(s) ==
    IF s.type = 0 THEN get_page(s, s.current_pos)
    ELSE IF s.type = 1 THEN get_surah(s, s.current_pos)
    ELSE IF s.type = 2 THEN get_hizb(s, s.current_pos)
    ELSE IF s.type = 3 THEN get_quarter(s, s.current_pos)
    ELSE get_juzz(s, s.current_pos)

\* the if/elif/else chain ending next, back and goto
Dispatch(s) ==
    IF s.type = 0 THEN get_page(s, s.current_pos)
    ELSE IF s.type = 1 THEN get_surah(s, s.current_pos)
    ELSE IF s.type = 2 THEN get_quarter(s, s.current_pos)
    ELSE IF s.type = 3 THEN get_hizb(s, s.current_pos)
    ELSE get_juzz(s, s.current_pos)

\* next with the bound test written >
next_strict(s) ==
    IF s.current_pos > s.max_pos THEN Return(s, RetStr(Empty))
    ELSE Dispatch([s EXCEPT !.current_pos = s.current_pos + 1])

next(s) ==
    IF s.current_pos >= s.max_pos THEN Return(s, RetStr(Empty))
    ELSE Dispatch([s EXCEPT !.current_pos = s.current_pos + 1])

\* back with the bound test written < 1
back_past_one(s) ==
    IF s.current_pos < 1 THEN Return(s, RetStr(Empty))
    ELSE Dispatch([s EXCEPT !.current_pos = s.current_pos - 1])

\* back without the decrement
back_stay(s) ==
    IF s.current_pos <= 1 THEN Return(s, RetStr(Empty))
    ELSE Dispatch(s)

back(s) ==
    IF s.current_pos <= 1 THEN Return(s, RetStr(Empty))
    ELSE Dispatch([s EXCEPT !.current_pos = s.current_pos - 1])

\* goto without its bound test
goto_unguarded(s, target) ==
    Dispatch([s EXCEPT !.current_pos = target])

\* goto with the bound test written >=
goto_inclusive(s, target) ==
    IF target >= s.max_pos THEN Return(s, RetStr(Empty))
    ELSE Dispatch([s EXCEPT !.current_pos = target])

goto(s, target) ==
    IF target > s.max_pos THEN Return(s, RetStr(Empty))
    ELSE Dispatch([s EXCEPT !.current_pos = target])

\* FromAyah without the "- 1" of the in-range branch
FromAyah_off_by_one(from_surah, from_ayah) ==
    IF from_surah.v >= 1
        THEN LET result == NumbersOfSura(from_surah.v)
             IN  IF from_ayah.v < 1 THEN PyInt(1)
                 ELSE IF from_ayah.v > Len(result) THEN PyInt(Len(result))
                 ELSE PyInt(result[1] + from_ayah.v)
        ELSE from_ayah

\* get_range, "check from_surah real number": the lower bound's verse number
FromAyah(from_surah, from_ayah) ==
    IF from_surah.v >= 1
        THEN LET result == NumbersOfSura(from_surah.v)
             IN  IF from_ayah.v < 1 THEN PyInt(1)
                 ELSE IF from_ayah.v > Len(result) THEN PyInt(Len(result))
                 ELSE PyInt(result[1] + (from_ayah.v - 1))
        ELSE from_ayah

\* get_range, "check to_surah real number": the upper bound's verse number
ToAyah(to_surah, to_ayah) ==
    IF to_surah.v >= 1
        THEN LET result == NumbersOfSura(to_surah.v)
             IN  IF to_ayah.v < 1 THEN PyInt(Len(result))
                 ELSE IF to_ayah.v > Len(result) THEN PyInt(Len(result))
                 ELSE PyInt(result[1] + (to_ayah.v - 1))
        ELSE to_ayah

get_range(s, from_surah, from_ayah, to_surah, to_ayah) ==
    LET s1 == [s EXCEPT !.current_pos = -1, !.max_pos = -1, !.type = 5]
        fa == FromAyah(from_surah, from_ayah)
        ta == ToAyah(to_surah, to_ayah)
    IN  IF Truthy(ta)
            THEN LET f == IF IsFalse(fa) THEN 1 ELSE fa.v
                 IN  get_text([s1 EXCEPT !.data_list =
                                  RowsToDataList(SelectBetween(f, ta.v))])
        ELSE IF Truthy(fa) /\ IsFalse(ta)
            THEN get_text([s1 EXCEPT !.data_list =
                              RowsToDataList(SelectFrom(fa.v))])
        \* "SELECT * FROM quran WHERE number > 1'": an unterminated string literal
        ELSE Raise(s1, "OperationalError")

\* get_by_ayah_number without "self.max_pos = QuranConst.get_max(self.type)"
get_by_ayah_number_keeps_bound(s, ayah_number) ==
    IF s.type \notin 0..4 THEN Raise(s, "AssertionError")
    ELSE LET found == SelectNumber(ayah_number)
             rows == IF found = Empty THEN Empty
                     ELSE SelectUnit(s.type, Coord(found[1], s.type))
             s1 == [s EXCEPT !.data_list = RowsToDataList(rows)]
         IN  IF found = Empty THEN Raise(s1, "TypeError")
             ELSE LET s2 == [s1 EXCEPT !.current_pos = Coord(found[1], s.type)]
                      s3 == get_text(s2)
                  IN  Return(s3, RetDict(found[1].text, s3.ret.text))

\* get_by_ayah_number falling back to verse 1 when no row has the number
get_by_ayah_number_first_verse(s, ayah_number) ==
    IF s.type \notin 0..4 THEN Raise(s, "AssertionError")
    ELSE LET found == IF SelectNumber(ayah_number) = Empty THEN SelectNumber(1)
                      ELSE SelectNumber(ayah_number)
             rows == SelectUnit(s.type, Coord(found[1], s.type))
             s1 == [s EXCEPT !.data_list = RowsToDataList(rows)]
             s2 == [s1 EXCEPT !.current_pos = Coord(found[1], s.type),
                              !.max_pos = get_max(s.type).ret]
             s3 == get_text(s2)
         IN  Return(s3, RetDict(found[1].text, s3.ret.text))

get_by_ayah_number(s, ayah_number) ==
    IF s.type \notin 0..4 THEN Raise(s, "AssertionError")
    ELSE LET found == SelectNumber(ayah_number)
             rows == IF found = Empty THEN Empty
                     ELSE SelectUnit(s.type, Coord(found[1], s.type))
             s1 == [s EXCEPT !.data_list = RowsToDataList(rows)]
         IN  \* ayah_result = fetchone() is None: ayah_result[0] raises
             IF found = Empty THEN Raise(s1, "TypeError")
             ELSE LET s2 == [s1 EXCEPT !.current_pos = Coord(found[1], s.type),
                                       !.max_pos = get_max(s.type).ret]
                      s3 == get_text(s2)
                  IN  Return(s3, RetDict(found[1].text, s3.ret.text))

\* BookmarkDialog.go_to_bookmark: the bookmark's category is assigned to
\* quran.type, then the unit holding the bookmarked verse is looked up
go_to_bookmark(s, criteria_number, ayah_number) ==
    get_by_ayah_number([s EXCEPT !.type = criteria_number], ayah_number)

get_ayah_info(s, position) ==
    IF s.ayah_data.isNone THEN Raise(s, "AttributeError")
    ELSE LET ayah_number == AyahData_get(s.ayah_data.spans, position)
             found == IF ayah_number.isNone THEN Empty
                      ELSE SelectNumber(ayah_number.value)
         IN  IF found = Empty THEN Return(s, RetNone)
             ELSE Return(s, RetRow(<<found[1].sura_number, found[1].number,
                                     found[1].sura_name, found[1].numberInSurah>>))

-----------------------------------------------------------------------------
(* The calls a client makes, with the arguments tried *)

\* how far below 1 and above the maximum the indices passed in go
Undershoot == 1
Overshoot == 1

IndexInputs(max) == ((1 - Undershoot)..1) \cup (max..(max + Overshoot))

\* next() and back() are called while the position is within Window of either
\* end of the category: the walk through the middle of the corpus is cut short
Window == 1

InWindow(pos, max) == pos <= 1 + Window \/ pos >= max - Window

\* global verse numbers passed to get_by_ayah_number
AyahInputs == {1, NumVerses, NumVerses + 1}

\* (from_surah, from_ayah, to_surah, to_ayah) passed to get_range
RangeInputs ==
    {<<PyInt(2), PyInt(fa), PyInt(2), PyInt(5)>> : fa \in {0, 1, 50}}
    \cup {<<PyInt(2), PyInt(1), PyInt(2), PyInt(50)>>,
          <<PyInt(1), PyInt(6), PyInt(2), PyInt(2)>>,
          <<PyInt(2), PyInt(5), PyInt(2), PyInt(1)>>,
          <<PyFalse, PyFalse, PyInt(1), PyInt(3)>>,
          <<PyInt(114), PyInt(2), PyFalse, PyFalse>>,
          <<PyFalse, PyFalse, PyFalse, PyFalse>>}

Store(s, op, args) ==
    /\ self' = s
    /\ last' = [op |-> op, args |-> args]

GetPage == \E n \in IndexInputs(max_page) : Store(get_page(self, n), "get_page", <<n>>)

GetSurah ==
    \E n \in IndexInputs(max_surah_number) : Store(get_surah(self, n), "get_surah", <<n>>)

GetQuarter ==
    \E n \in IndexInputs(max_hizb_quarter) :
        Store(get_quarter(self, n), "get_quarter", <<n>>)

GetHizb == \E n \in IndexInputs(max_hizb) : Store(get_hizb(self, n), "get_hizb", <<n>>)

GetJuzz == \E n \in IndexInputs(max_juz) : Store(get_juzz(self, n), "get_juzz", <<n>>)

GetRange ==
    \E a \in RangeInputs :
        Store(get_range(self, a[1], a[2], a[3], a[4]), "get_range", a)

NextCall ==
    /\ InWindow(self.current_pos, self.max_pos)
    /\ Store(next(self), "next", Empty)

BackCall ==
    /\ InWindow(self.current_pos, self.max_pos)
    /\ Store(back(self), "back", Empty)

Goto == \E n \in IndexInputs(self.max_pos) : Store(goto(self, n), "goto", <<n>>)

GetByAyahNumber ==
    \E n \in AyahInputs :
        Store(get_by_ayah_number(self, n), "get_by_ayah_number", <<n>>)

\* the saved bookmarks: each holds the category tag quran.type had when it was
\* saved and the global number of the verse under the cursor
Bookmarks == {<<1, 8>>, <<4, NumVerses>>}

GoToBookmark ==
    \E b \in Bookmarks :
        Store(go_to_bookmark(self, b[1], b[2]), "go_to_bookmark", b)

\* quran_mgr.__init__
Init ==
    /\ self \in
        {[show_ayah_number |-> TRUE, aya_to_line |-> b,
          current_pos |-> 1, max_pos |-> 604, type |-> 0,
          data_list |-> Empty, text |-> Empty, ayah_data |-> NoAyahData,
          ret |-> RetNone, exc |-> NoExc] : b \in BOOLEAN}
    /\ last = [op |-> "__init__", args |-> Empty]

Next ==
    \/ GetPage
    \/ GetSurah
    \/ GetQuarter
    \/ GetHizb
    \/ GetJuzz
    \/ GetRange
    \/ NextCall
    \/ BackCall
    \/ Goto
    \/ GetByAyahNumber
    \/ GoToBookmark

Spec == Init /\ [][Next]_vars

-----------------------------------------------------------------------------
(* A client that browses by chapter and asks for ranges open at the end *)

\* (from_surah, from_ayah) passed to get_range(from_surah, from_ayah) and
\* get_range(from_surah)
OpenRangeInputs ==
    {<<PyInt(114), PyFalse, PyFalse, PyFalse>>,
     <<PyInt(114), PyInt(2), PyFalse, PyFalse>>,
     <<PyInt(113), PyInt(0), PyFalse, PyFalse>>,
     <<PyInt(113), PyInt(7), PyFalse, PyFalse>>}

GetOpenRange ==
    \E a \in OpenRangeInputs :
        Store(get_range(self, a[1], a[2], a[3], a[4]), "get_range", a)

NextOpenRange ==
    \/ GetOpenRange
    \/ GetSurah
    \/ NextCall
    \/ BackCall
    \/ Goto

OpenRangeSpec == Init /\ [][NextOpenRange]_vars

-----------------------------------------------------------------------------
(* A client of QuranConst: the two class methods called with any tag; self   *)
(* holds what each returned last                                             *)

\* how far outside 0..4 the tags passed in go
TagSpan == 6

TagInputs == (0 - TagSpan)..(4 + TagSpan)

ConstInit ==
    /\ self = [max |-> [exc |-> NoExc, ret |-> 0],
               label |-> [exc |-> NoExc, ret |-> ""]]
    /\ last = [op |-> "__init__", args |-> Empty]

CallGetMax ==
    \E n \in TagInputs :
        /\ self' = [self EXCEPT !.max = get_max(n)]
        /\ last' = [op |-> "get_max", args |-> <<n>>]

CallGetCategoryLabel ==
    \E n \in TagInputs :
        /\ self' = [self EXCEPT !.label = get_category_label(n)]
        /\ last' = [op |-> "get_category_label", args |-> <<n>>]

ConstNext ==
    \/ CallGetMax
    \/ CallGetCategoryLabel

ConstSpec == ConstInit /\ [][ConstNext]_vars

-----------------------------------------------------------------------------
(* QuranInterface, the main window. In the specifications of this section    *)
(* self is the window: its quran_mgr, the text and the cursor of quran_view, *)
(* the enabled flags of the two step buttons, and what UserDataManager and   *)
(* BookmarkManager keep on disk between sessions.                            *)

\* UserDataManager().get_last_position() before any position was saved: the
\* defaults of set_text's position_data.get(...)
NoSavedPosition == [ayah_number |-> 1, position |-> 1, criteria_number |-> 0]

\* self.quran = quran_mgr(); self.quran.aya_to_line = True
NewQuran ==
    [show_ayah_number |-> TRUE, aya_to_line |-> TRUE,
     current_pos |-> 1, max_pos |-> 604, type |-> 0,
     data_list |-> Empty, text |-> Empty, ayah_data |-> NoAyahData,
     ret |-> RetNone, exc |-> NoExc]

\* the window after a handler raised: what it had assigned stays assigned
UiRaise(ui, name) == [ui EXCEPT !.exc = name]
UiDone(ui) == [ui EXCEPT !.exc = NoExc]

\* QTextEdit.setText: the text is replaced and the cursor returns to the start
SetText(ui, text) == [ui EXCEPT !.quran_view = text, !.cursor = 0]

\* textCursor().block().position(): the offset at which the cursor's line starts
BlockStart(text, pos) ==
    LET breaks == {k \in 1..Min2(pos, Len(text)) : text[k] = "\n"}
    IN  IF breaks = {} THEN 0 ELSE CHOOSE k \in breaks : \A j \in breaks : j <= k

\* textCursor().block().text(): the cursor's line
BlockText(text, pos) ==
    LET from == BlockStart(text, pos)
        ends == {k \in (from + 1)..Len(text) : text[k] = "\n"}
        to == IF ends = {} THEN Len(text)
              ELSE (CHOOSE k \in ends : \A j \in ends : k <= j) - 1
    IN  SubSeq(text, from + 1, to)

\* QTextEdit.find(text) from the start: the cursor goes to the end of the first
\* occurrence, or stays where it is if there is none
Find(ui, text) ==
    LET found == Occurrences(ui.quran_view, text)
    IN  IF found = {} \/ text = Empty THEN ui
        ELSE [ui EXCEPT !.cursor =
                 (CHOOSE k \in found : \A j \in found : k <= j) + Len(text)]

\* set_text_ctrl_label: the title of the unit shown; for a chapter it reads the
\* chapter name off the last row of data_list
set_text_ctrl_label(ui) ==
    IF ui.quran.type = 1 /\ ui.quran.data_list = Empty
        THEN UiRaise(ui, "IndexError")
        ELSE UiDone(ui)

\* create_widgets: the two step buttons as they are enabled at construction
create_widgets(ui) ==
    [ui EXCEPT !.next_to = (ui.quran.current_pos # ui.quran.max_pos),
               !.back_to = (ui.quran.current_pos # 1)]

\* QuranInterface.__init__ up to its last line, the call of set_text
NewWindow(position_data, bookmarks) ==
    create_widgets([quran |-> NewQuran, quran_view |-> Empty, cursor |-> 0,
                    next_to |-> FALSE, back_to |-> FALSE,
                    position_data |-> position_data, bookmarks |-> bookmarks,
                    exc |-> NoExc, alive |-> TRUE])

\* set_text, its first steps: the saved category is assigned to quran.type;
\* this is the navigator on which goto is then called
set_text_type(ui) ==
    [ui.quran EXCEPT !.type = ui.position_data.criteria_number]

\* set_text: the saved position is restored and the cursor put on the saved verse
set_text(ui) ==
    Only({Only({
        IF shown.exc # NoExc THEN shown
        ELSE IF q.ayah_data.isNone THEN UiRaise(shown, "AttributeError")
        ELSE LET text_position ==
                    AyahData_get_position(q.ayah_data.spans,
                                          ui.position_data.ayah_number)
             IN  IF text_position.isNone THEN UiRaise(shown, "TypeError")
                 ELSE [shown EXCEPT !.cursor = text_position.value]
        : shown \in {set_text_ctrl_label(SetText([ui EXCEPT !.quran = q], q.ret.text))}})
        : q \in {goto(set_text_type(ui), ui.position_data.position)}})

\* QuranInterface.__init__ with what the disk holds: a window that failed to
\* construct is not alive
QuranInterface(position_data, bookmarks) ==
    Only({[ui EXCEPT !.alive = (ui.exc = NoExc)] :
            ui \in {set_text(NewWindow(position_data, bookmarks))}})

OnNext(ui) ==
    Only({Only({
        IF shown.exc # NoExc THEN shown
        ELSE [shown EXCEPT !.back_to = TRUE,
                           !.next_to = IF q.current_pos = q.max_pos
                                        THEN FALSE ELSE shown.next_to]
        : shown \in {set_text_ctrl_label(SetText([ui EXCEPT !.quran = q], q.ret.text))}})
        : q \in {next(ui.quran)}})

OnBack(ui) ==
    Only({Only({
        IF shown.exc # NoExc THEN shown
        ELSE [shown EXCEPT !.next_to = TRUE,
                           !.back_to = IF q.current_pos = 1
                                        THEN FALSE ELSE shown.back_to]
        : shown \in {set_text_ctrl_label(SetText([ui EXCEPT !.quran = q], q.ret.text))}})
        : q \in {back(ui.quran)}})

\* the QuickAccess dialog, accepted: it selects unit index of category c on the
\* window's quran_mgr and shows the text
QuickAccess(ui, c, index) ==
    Only({SetText([ui EXCEPT !.quran = q], q.ret.text) :
            q \in {select(ui.quran, c, index)}})

\* OnQuickAccess after the dialog was accepted: the four tests on the position
\* set the two buttons one after the other
OnQuickAccess(ui, c, index) ==
    Only({
        IF shown.exc # NoExc THEN shown
        ELSE LET q == shown.quran
                 b1 == IF q.current_pos = 1 THEN FALSE ELSE shown.back_to
                 n2 == IF q.current_pos < q.max_pos THEN TRUE ELSE shown.next_to
                 b3 == IF q.current_pos > 1 THEN TRUE ELSE b1
                 n4 == IF q.current_pos = q.max_pos THEN FALSE ELSE n2
             IN  [shown EXCEPT !.back_to = b3, !.next_to = n4]
        : shown \in {set_text_ctrl_label(QuickAccess(ui, c, index))}})

\* BookmarkDialog.go_to_bookmark on the window that opened the dialog
BookmarkDialog_go_to_bookmark(ui, bookmark) ==
    Only({
        IF q.exc # NoExc THEN UiRaise([ui EXCEPT !.quran = q], q.exc)
        ELSE UiDone(Find(SetText([ui EXCEPT !.quran = q], q.ret.text),
                         q.ret.ayah_text))
        : q \in {go_to_bookmark(ui.quran, bookmark[1], bookmark[2])}})

\* get_current_ayah_info: the verse at the start of the cursor's line
get_current_ayah_info(ui) ==
    get_ayah_info(ui.quran, BlockStart(ui.quran_view, ui.cursor))

\* onContextMenu: the save entries are enabled when the cursor's line ends with
\* a verse number in brackets, re.search(r"\(\d+\)$", current_line)
SaveEnabled(ui) ==
    LET line == BlockText(ui.quran_view, ui.cursor)
    IN  /\ line # Empty
        /\ line[Len(line)] = ")"
        /\ \E k \in 1..(Len(line) - 2) :
              /\ line[k] = "("
              /\ \A j \in (k + 1)..(Len(line) - 1) : \E d \in DOMAIN Digit : Digit[d] = line[j]

\* OnSaveCurrentPosition: subscripting the None of an unresolved offset raises
OnSaveCurrentPosition(ui) ==
    Only({
        IF info.exc # NoExc THEN UiRaise(ui, info.exc)
        ELSE IF info.ret.kind # "row" THEN UiRaise(ui, "TypeError")
        ELSE UiDone([ui EXCEPT !.position_data =
                        [ayah_number |-> info.ret.info[2],
                         criteria_number |-> ui.quran.type,
                         position |-> ui.quran.current_pos]])
        : info \in {get_current_ayah_info(ui)}})

\* OnSaveBookmark, the name dialog accepted
OnSaveBookmark(ui) ==
    Only({
        IF info.exc # NoExc THEN UiRaise(ui, info.exc)
        ELSE IF info.ret.kind # "row" THEN UiRaise(ui, "TypeError")
        ELSE UiDone([ui EXCEPT !.bookmarks =
                        ui.bookmarks \cup {<<ui.quran.type, info.ret.info[2]>>}])
        : info \in {get_current_ayah_info(ui)}})

-----------------------------------------------------------------------------
(* The events of a user of the window *)

\* how many bookmarks the user keeps
MaxBookmarks == 1

\* the units picked in the quick access dialog
QuickAccessInputs == {<<0, 1>>, <<1, 2>>, <<4, max_juz>>}

\* the lines the user puts the cursor on: the last line of the first and of
\* the last verse shown
CursorInputs(ui) ==
    IF ui.quran.ayah_data.isNone \/ ui.quran.ayah_data.spans = Empty THEN {}
    ELSE {Min2(ui.quran.ayah_data.spans[i].last, Len(ui.quran_view)) :
            i \in {1, Len(ui.quran.ayah_data.spans)}}

Event(ui, op, args) ==
    /\ self' = ui
    /\ last' = [op |-> op, args |-> args]

\* the application is started, first with nothing saved, later with what the
\* earlier sessions saved
UiInit ==
    /\ self = QuranInterface(NoSavedPosition, {})
    /\ last = [op |-> "QuranInterface", args |-> Empty]

Restart ==
    Event(QuranInterface(self.position_data, self.bookmarks), "QuranInterface", Empty)

ClickNext ==
    /\ self.alive /\ self.next_to
    /\ InWindow(self.quran.current_pos, self.quran.max_pos)
    /\ Event(OnNext(self), "OnNext", Empty)

ClickBack ==
    /\ self.alive /\ self.back_to
    /\ InWindow(self.quran.current_pos, self.quran.max_pos)
    /\ Event(OnBack(self), "OnBack", Empty)

PickQuickAccess ==
    /\ self.alive
    /\ \E a \in QuickAccessInputs : Event(OnQuickAccess(self, a[1], a[2]), "OnQuickAccess", a)

PickBookmark ==
    /\ self.alive
    /\ \E b \in self.bookmarks :
          Event(BookmarkDialog_go_to_bookmark(self, b), "go_to_bookmark", b)

MoveCursor ==
    /\ self.alive
    /\ \E o \in CursorInputs(self) :
          Event([self EXCEPT !.cursor = o], "MoveCursor", <<o>>)

SaveCurrentPosition ==
    /\ self.alive /\ SaveEnabled(self)
    /\ Event(OnSaveCurrentPosition(self), "OnSaveCurrentPosition", Empty)

SaveBookmark ==
    /\ self.alive /\ SaveEnabled(self)
    /\ Cardinality(self.bookmarks) < MaxBookmarks
    /\ Event(OnSaveBookmark(self), "OnSaveBookmark", Empty)

UiNext ==
    \/ Restart
    \/ ClickNext
    \/ ClickBack
    \/ PickQuickAccess
    \/ PickBookmark
    \/ MoveCursor
    \/ SaveCurrentPosition
    \/ SaveBookmark

UiSpec == UiInit /\ [][UiNext]_vars

-----------------------------------------------------------------------------
(* A window whose user also asks for verse ranges: the text get_range returns *)
(* is shown in quran_view like the text of any other call                    *)

\* (from_surah, from_ayah, to_surah, to_ayah) asked for
UiRangeInputs == {<<PyInt(2), PyInt(1), PyInt(2), PyInt(5)>>}

\* the range asked for is rendered and shown
ShowRange(ui, a) ==
    Only({IF q.exc # NoExc THEN UiRaise([ui EXCEPT !.quran = q], q.exc)
          ELSE UiDone(SetText([ui EXCEPT !.quran = q], q.ret.text))
          : q \in {get_range(ui.quran, a[1], a[2], a[3], a[4])}})

PickRange ==
    /\ self.alive
    /\ \E a \in UiRangeInputs : Event(ShowRange(self, a), "get_range", a)

UiRangeNext ==
    \/ Restart
    \/ PickRange
    \/ PickQuickAccess
    \/ ClickNext
    \/ MoveCursor
    \/ SaveCurrentPosition

UiRangeSpec == UiInit /\ [][UiRangeNext]_vars

-----------------------------------------------------------------------------
(* A client that selects a unit and then only steps: next() again and again, *)
(* or back() again and again. last.args holds the category and the index     *)
(* selected and the number of steps made since.                              *)

\* how far from the end of the category it walks to a forward walk starts, and
\* how many steps a walk makes at most
WalkLen == 2
MaxSteps == 4

ForwardStarts(c) == (_max[c + 1] - WalkLen).._max[c + 1]
BackwardStarts(c) == 1..(1 + WalkLen)

WalkSelect ==
    /\ last.op = "__init__"
    /\ \E c \in Categories : \E i \in ForwardStarts(c) \cup BackwardStarts(c) :
          /\ self' = select(self, c, i)
          /\ last' = [op |-> "select", args |-> <<c, i, 0>>]

WalkNext ==
    /\ \/ last.op = "next"
       \/ (last.op = "select" /\ last.args[2] \in ForwardStarts(last.args[1]))
    /\ last.args[3] < MaxSteps
    /\ self' = next(self)
    /\ last' = [op |-> "next", args |-> [last.args EXCEPT ![3] = @ + 1]]

WalkBack ==
    /\ \/ last.op = "back"
       \/ (last.op = "select" /\ last.args[2] \in BackwardStarts(last.args[1]))
    /\ last.args[3] < MaxSteps
    /\ self' = back(self)
    /\ last' = [op |-> "back", args |-> [last.args EXCEPT ![3] = @ + 1]]

WalkSteps ==
    \/ WalkSelect
    \/ WalkNext
    \/ WalkBack

\* the client keeps calling: a step that stays possible is made
WalkSpec ==
    /\ Init
    /\ [][WalkSteps]_vars
    /\ WF_vars(WalkNext)
    /\ WF_vars(WalkBack)

-----------------------------------------------------------------------------
(* Vocabulary of the properties *)

SelectorCat ==
    [get_page |-> 0, get_surah |-> 1, get_quarter |-> 2, get_hizb |-> 3, get_juzz |-> 4]

SelectorOps == DOMAIN SelectorCat

MaxOf(c) == _max[c + 1]

\* the navigator state: everything but the returned value and the exception
NavState(s) ==
    [current_pos |-> s.current_pos, max_pos |-> s.max_pos, type |-> s.type,
     data_list |-> s.data_list, text |-> s.text, ayah_data |-> s.ayah_data]

EmptyText == RetStr(Empty)

\* the valid offsets of a text
Offsets(t) == 0..(Len(t) - 1)

\* resolve_offset(o): the row get_ayah_info returns in state s
Resolved(s, o) == get_ayah_info(s, o).ret

ResolvesTo(s, o, ayah_number) ==
    /\ Resolved(s, o).kind = "row"
    /\ Resolved(s, o).info[2] = ayah_number

-----------------------------------------------------------------------------
(* Properties *)

\* C1 (as claimed): for every category C and every index i > max(C),
\* select(C, i) returns the same blob and leaves the same navigator state as
\* select(C, max(C)) would have from the same state.
C1_ClampedSelectEqualsSelectMax ==
    [][(/\ last'.op \in SelectorOps
        /\ last'.args[1] > MaxOf(SelectorCat[last'.op]))
       => self' = select(self, SelectorCat[last'.op], MaxOf(SelectorCat[last'.op]))]_vars

\* C2: in each of the five categories, next() at current index = max(C) returns
\* empty text and leaves the navigator state unchanged, and so does back() at
\* current index = 1.
C2_BoundaryStepIsNoOp ==
    [][/\ (/\ last'.op = "next"
           /\ self.type \in Categories
           /\ self.current_pos = MaxOf(self.type))
          => (self'.ret = EmptyText /\ self'.exc = NoExc
              /\ NavState(self') = NavState(self))
       /\ (/\ last'.op = "back"
           /\ self.type \in Categories
           /\ self.current_pos = 1)
          => (self'.ret = EmptyText /\ self'.exc = NoExc
              /\ NavState(self') = NavState(self))]_vars

\* C2 witness: next() has just returned empty text at the last chapter, whose
\* rendered text is still stored.
C2_Witness ==
    /\ last.op = "next"
    /\ self.type = 1
    /\ self.current_pos = max_surah_number
    /\ self.ret = EmptyText
    /\ self.data_list # Empty
    /\ self.text # Empty

\* C3: in each of the five categories with 1 <= current index i < max(C), next()
\* sets the index to i + 1, keeps the category, and leaves the navigator in the
\* state select(C, i + 1) leaves it in, returning the same blob.
C3_NextIsSelectOfSuccessor ==
    [][(/\ last'.op = "next"
        /\ self.type \in Categories
        /\ 1 <= self.current_pos
        /\ self.current_pos < MaxOf(self.type))
       => (/\ self'.current_pos = self.current_pos + 1
           /\ self'.type = self.type
           /\ self' = select(self, self.type, self.current_pos + 1))]_vars

\* C3 witness: next() has moved from quarter 2 to quarter 3 and rendered it.
C3_Witness ==
    /\ last.op = "next"
    /\ self.type = 2
    /\ self.current_pos = 3
    /\ self.ret.text # Empty
    /\ self.ret.text = self.text

\* C4: in each of the five categories with 1 < current index i <= max(C), back()
\* sets the index to i - 1, keeps the category, and leaves the navigator in the
\* state select(C, i - 1) leaves it in, returning the same blob.
C4_BackIsSelectOfPredecessor ==
    [][(/\ last'.op = "back"
        /\ self.type \in Categories
        /\ 1 < self.current_pos
        /\ self.current_pos <= MaxOf(self.type))
       => (/\ self'.current_pos = self.current_pos - 1
           /\ self'.type = self.type
           /\ self' = select(self, self.type, self.current_pos - 1))]_vars

\* C4 witness: back() has moved from hizb 60 to hizb 59 and rendered it.
C4_Witness ==
    /\ last.op = "back"
    /\ self.type = 3
    /\ self.current_pos = max_hizb - 1
    /\ self.ret.text # Empty
    /\ self.ret.text = self.text

\* C5: in each of the five categories, goto(index) with index > max(C) returns
\* empty text and changes nothing in the navigator state, and with
\* index <= max(C) it behaves like select(C, index).
C5_GotoIsGuardedSelect ==
    [][(last'.op = "goto" /\ self.type \in Categories)
       => IF last'.args[1] > MaxOf(self.type)
            THEN /\ self'.ret = EmptyText /\ self'.exc = NoExc
                 /\ NavState(self') = NavState(self)
            ELSE self' = select(self, self.type, last'.args[1])]_vars

\* C5 witness: goto(31) has just been refused in the part category, whose
\* rendered text is still stored.
C5_Witness ==
    /\ last.op = "goto"
    /\ self.type = 4
    /\ last.args[1] > max_juz
    /\ self.ret = EmptyText
    /\ self.data_list # Empty
    /\ self.text # Empty

\* C6: after select(C, i) with i in [1, max(C)], resolve_offset(o) for every
\* valid offset o of the returned blob returns a verse whose category-C
\* coordinate is i.
C6_ResolvedVerseBelongsToUnit ==
    (/\ last.op \in SelectorOps
     /\ last.args[1] \in 1..MaxOf(SelectorCat[last.op]))
    => \A o \in Offsets(self.ret.text) :
          /\ Resolved(self, o).kind = "row"
          /\ Coord(quran[Resolved(self, o).info[2]], SelectorCat[last.op])
                = last.args[1]

\* C6 witness: hizb 60 has just been selected, its blob is not empty, and its
\* last offset resolves to the last verse of the corpus, which lies in hizb 60.
C6_Witness ==
    /\ last.op = "get_hizb"
    /\ last.args[1] = max_hizb
    /\ Len(self.ret.text) > 1
    /\ ResolvesTo(self, Len(self.ret.text) - 1, NumVerses)
    /\ quran[NumVerses].hizb = max_hizb

\* C7: for every verse of the stored Position Index, lookup_start(verse) is an
\* offset at which resolve_offset returns that same verse.
C7_StartOffsetRoundTrip ==
    ~self.ayah_data.isNone
    => \A i \in 1..Len(self.ayah_data.spans) :
          LET v == self.ayah_data.spans[i].ayah
              start == AyahData_get_position(self.ayah_data.spans, v)
          IN  /\ ~start.isNone
              /\ ResolvesTo(self, start.value, v)

\* C7 witness: a render of several verses, the third of which starts past
\* offset 0 and is found again from its start offset.
C7_Witness ==
    /\ ~self.ayah_data.isNone
    /\ Len(self.ayah_data.spans) >= 3
    /\ self.ayah_data.spans[3].first > 0
    /\ AyahData_get_position(self.ayah_data.spans, self.ayah_data.spans[3].ayah)
          = SomeInt(self.ayah_data.spans[3].first)
    /\ ResolvesTo(self, self.ayah_data.spans[3].first, self.ayah_data.spans[3].ayah)

\* C8: select(C, i) called again right after select(C, i), with the same
\* formatting configuration, returns the same blob and leaves the same Position
\* Index (and the same navigator state), whatever state the first call started in.
C8_SelectTwiceIsSelectOnce ==
    last.op \in SelectorOps
    => \A again \in {select(self, SelectorCat[last.op], last.args[1])} :
           /\ again.ret = self.ret
           /\ again.ayah_data = self.ayah_data
           /\ NavState(again) = NavState(self)

\* C8 witness: part 1 has just been selected and rendered into several spans.
C8_Witness ==
    /\ last.op = "get_juzz"
    /\ last.args[1] = 1
    /\ self.ret.text # Empty
    /\ ~self.ayah_data.isNone
    /\ Len(self.ayah_data.spans) > 1
    /\ select(self, 4, 1).ret.text = self.text

\* the verse count and the first global number of a chapter
VerseCount(sura) == Len(NumbersOfSura(sura))
FirstNumber(sura) == NumbersOfSura(sura)[1]

ClampTo(x, lo, hi) == IF x < lo THEN lo ELSE IF x > hi THEN hi ELSE x

\* the global number the range bound (sura, verse-in-chapter) stands for
BoundNumber(sura, ayah) ==
    FirstNumber(sura) + (ClampTo(ayah, 1, VerseCount(sura)) - 1)

\* C9 (as claimed): when get_range converts a (chapter, verse-in-chapter) bound,
\* lower or upper, to a global verse number, the result is the chapter's first
\* global number plus (clamp(verse, 1, verse count) - 1).
C9_RangeBoundIsClampedIntoChapter ==
    last.op = "get_range"
    => /\ (last.args[1].v >= 1 /\ ~IsFalse(last.args[2]))
            => FromAyah(last.args[1], last.args[2]).v
                  = BoundNumber(last.args[1].v, last.args[2].v)
       /\ (last.args[3].v >= 1 /\ ~IsFalse(last.args[4]))
            => ToAyah(last.args[3], last.args[4]).v
                  = BoundNumber(last.args[3].v, last.args[4].v)

\* both bounds of the last get_range call given, each verse inside its chapter
BothBoundsInside ==
    /\ last.op = "get_range"
    /\ \A k \in 1..4 : ~IsFalse(last.args[k])
    /\ last.args[1].v \in 1..max_surah_number
    /\ last.args[3].v \in 1..max_surah_number
    /\ last.args[2].v \in 1..VerseCount(last.args[1].v)
    /\ last.args[4].v \in 1..VerseCount(last.args[3].v)

RangeLow == BoundNumber(last.args[1].v, last.args[2].v)
RangeHigh == BoundNumber(last.args[3].v, last.args[4].v)

\* s has t as a contiguous part
Contains(s, t) ==
    \E k \in 0..(Len(s) - Len(t)) : SubSeq(s, k + 1, k + Len(t)) = t

\* the text of verse n as a render shows it: as stored, or with the line break
\* get_text puts after the invocation phrase
ShownText(n) ==
    {quran[n].text,
     Replace(quran[n].text, Bismillah \o <<" ">>, Bismillah \o <<"\n">>)}

\* the part of the returned blob that span i of the Position Index covers
Slice(s, i) ==
    SubSeq(s.ret.text, s.ayah_data.spans[i].first + 1,
           Min2(s.ayah_data.spans[i].last + 1, Len(s.ret.text)))

\* C10: get_range(fc, fv, tc, tv) with both bounds given and each verse number
\* inside its chapter returns a blob of exactly the verses from (fc, fv) to
\* (tc, tv) inclusive, in global order: one span per verse, each span's part of
\* the blob holding that verse's text, the spans covering the blob; and every
\* offset of the blob resolves to a verse of that interval (of chapter fc when
\* fc = tc). An empty interval returns empty text.
C10_RangeRendersExactlyTheInterval ==
    BothBoundsInside
    => IF RangeLow > RangeHigh THEN self.ret = EmptyText /\ self.data_list = Empty
       ELSE /\ self.exc = NoExc
            /\ self.ret = RetStr(self.text)
            /\ Len(self.data_list) = RangeHigh - RangeLow + 1
            /\ Len(self.ayah_data.spans) = RangeHigh - RangeLow + 1
            /\ \A i \in 1..(RangeHigh - RangeLow + 1) :
                  /\ self.data_list[i] = quran[RangeLow + i - 1]
                  /\ self.ayah_data.spans[i].ayah = RangeLow + i - 1
                  /\ self.ayah_data.spans[i].first =
                        (IF i = 1 THEN 0 ELSE self.ayah_data.spans[i - 1].last + 1)
                  /\ \E t \in ShownText(RangeLow + i - 1) : Contains(Slice(self, i), t)
            /\ self.ayah_data.spans[RangeHigh - RangeLow + 1].last
                  >= Len(self.ret.text) - 1
            /\ \A o \in Offsets(self.ret.text) :
                  /\ Resolved(self, o).kind = "row"
                  /\ Resolved(self, o).info[2] \in RangeLow..RangeHigh
                  /\ (last.args[1].v = last.args[3].v
                        => Resolved(self, o).info[1] = last.args[1].v)

\* C10 witness: get_range(2, 1, 2, 5) has returned a blob of five verses, all
\* offsets of which lie in chapter 2.
C10_Witness ==
    /\ last.op = "get_range"
    /\ last.args = <<PyInt(2), PyInt(1), PyInt(2), PyInt(5)>>
    /\ Len(self.data_list) = 5
    /\ self.ret.text # Empty
    /\ \A o \in Offsets(self.ret.text) : Resolved(self, o).info[1] = 2

\* the last get_range call gave a chapter as lower bound and no upper bound
LowerBoundOnly ==
    /\ last.op = "get_range"
    /\ ~IsFalse(last.args[1])
    /\ last.args[1].v \in 1..max_surah_number
    /\ IsFalse(last.args[3])
    /\ IsFalse(last.args[4])

\* the verse of the lower bound, verse 1 of the chapter when from_ayah is omitted
LowerBoundVerse == IF IsFalse(last.args[2]) THEN 1 ELSE last.args[2].v

\* C11 (as claimed): get_range with only a lower bound (from_surah, with or
\* without from_ayah) stores and renders exactly the verses whose global number
\* is at least the resolved lower bound, through the end of the corpus.
C11_LowerBoundOnlyRendersToTheEnd ==
    LowerBoundOnly
    => /\ self.exc = NoExc
       /\ self.data_list = SelectFrom(BoundNumber(last.args[1].v, LowerBoundVerse))

\* C12 (as claimed): get_range with every argument omitted completes, sets the
\* state to Range and renders the corpus from global verse 2 onward.
C12_NoBoundRendersFromVerseTwo ==
    (/\ last.op = "get_range"
     /\ \A k \in 1..4 : IsFalse(last.args[k]))
    => /\ self.exc = NoExc
       /\ self.type = 5
       /\ self.data_list = SelectFrom(2)
       /\ self.ret = RetStr(self.text)
       /\ self.text # Empty

\* the category a locate call works in, the global verse number it is given
LocateOps == {"get_by_ayah_number", "go_to_bookmark"}
LocateCategory(s, call) ==
    IF call.op = "go_to_bookmark" THEN call.args[1] ELSE s.type
LocateVerse(call) ==
    IF call.op = "go_to_bookmark" THEN call.args[2] ELSE call.args[1]

\* C13: get_by_ayah_number(v), for an existing global verse number v and
\* current category C of the five (the category of the bookmark, when called
\* from go_to_bookmark), sets the current index to v's category-C coordinate c
\* and the bound to max(C), leaves the verse list, blob and position index of
\* select(C, c), and returns v's raw text as the single-verse text.
C13_LocateIsSelectOfOwningUnit ==
    [][(/\ last'.op \in LocateOps
        /\ LocateCategory(self, last') \in Categories
        /\ LocateVerse(last') \in 1..NumVerses)
       => LET C == LocateCategory(self, last')
              v == LocateVerse(last')
              c == Coord(quran[v], C)
          IN  \A sel \in {select(self, C, c)} :
              /\ self'.exc = NoExc
              /\ self'.current_pos = c
              /\ self'.max_pos = MaxOf(C)
              /\ self'.type = C
              /\ NavState(self') = NavState(sel)
              /\ self'.ret = RetDict(quran[v].text, sel.ret.text)]_vars

\* C13 witness: the bookmark of global verse 8, saved in the chapter category,
\* has been opened: chapter 2 is current and rendered, the bound is 114.
C13_Witness ==
    /\ last.op = "go_to_bookmark"
    /\ last.args = <<1, 8>>
    /\ self.type = 1
    /\ self.current_pos = 2
    /\ self.max_pos = max_surah_number
    /\ Len(self.data_list) = Len(NumbersOfSura(2))
    /\ self.ret.kind = "dict"
    /\ self.ret.ayah_text = quran[8].text
    /\ self.ret.text = self.text

\* C14: get_by_ayah_number with a global verse number that matches no row fails
\* and the failure reaches the caller: an exception is raised, nothing is
\* returned, and the call does not go on as for verse 1 or any other verse (the
\* current index, the blob and the position index stay as they were).
C14_UnknownVerseFails ==
    [][(/\ last'.op \in LocateOps
        /\ LocateCategory(self, last') \in Categories
        /\ LocateVerse(last') \notin 1..NumVerses)
       => /\ self'.exc # NoExc
          /\ self'.ret = RetNone
          /\ self'.current_pos = self.current_pos
          /\ self'.text = self.text
          /\ self'.ayah_data = self.ayah_data]_vars

\* C14 witness: get_by_ayah_number of a number past the last verse has raised
\* TypeError while a rendered unit was on display.
C14_Witness ==
    /\ last.op = "get_by_ayah_number"
    /\ last.args[1] = NumVerses + 1
    /\ self.type \in Categories
    /\ self.exc = "TypeError"
    /\ self.ret = RetNone
    /\ self.text # Empty

\* offsets tried against the stored Position Index: before the blob, inside it,
\* at its end and past it
ProbeOffsets(s) == {-1, 0, Len(s.text) - 1, Len(s.text), Len(s.text) + 1}

\* no span of the stored Position Index holds offset o (there may be no index yet)
Uncovered(s, o) == s.ayah_data.isNone \/ AyahData_get(s.ayah_data.spans, o).isNone

\* C15 (as claimed): get_ayah_info called with an offset that the current
\* Position Index does not cover, also when nothing has been rendered yet,
\* returns the not-found value (None) and raises nothing.
C15_UncoveredOffsetIsNotFound ==
    \A o \in ProbeOffsets(self) :
        Uncovered(self, o)
        => /\ get_ayah_info(self, o).exc = NoExc
           /\ get_ayah_info(self, o).ret = RetNone

\* C16 (as claimed): get_max and get_category_label return the fixed value of
\* each of the five tags 0..4 (604, 114, 240, 60, 30 and the matching label)
\* and reject every other integer tag, negative ones included.
C16_ConstantsRejectOtherTags ==
    /\ last.op = "get_max"
       => IF last.args[1] \in Categories
            THEN self.max = [exc |-> NoExc,
                             ret |-> <<604, 114, 240, 60, 30>>[last.args[1] + 1]]
            ELSE self.max.exc # NoExc
    /\ last.op = "get_category_label"
       => IF last.args[1] \in Categories
            THEN self.label = [exc |-> NoExc,
                               ret |-> _category_labels[last.args[1] + 1]]
            ELSE self.label.exc # NoExc

\* in one of the five categories the current index lies in 1..max(category)
InBounds(s) ==
    s.type \in Categories => (1 <= s.current_pos /\ s.current_pos <= MaxOf(s.type))

\* C17 (as claimed): in every reachable state whose category is one of the
\* five, 1 <= current index <= max(category), whatever integer arguments the
\* select, next, previous, goto and locate calls before it were given.
C17_IndexWithinCategoryBounds == InBounds(self)

\* the call passes no index below 1 (only the selectors and goto take an index)
IndexFromOne(call) ==
    call.op \in SelectorOps \cup {"goto"} => call.args[1] >= 1

\* C17 (amended): a call whose index argument, if it takes one, is at least 1
\* leads from a state with 1 <= current index <= max(category) to a state with
\* 1 <= current index <= max(category), whenever the category is one of the
\* five; the initial state is such a state.
C17_IndexStaysWithinBoundsFromOne ==
    [][(InBounds(self) /\ IndexFromOne(last')) => InBounds(self')]_vars

\* C17 witness: get_surah(115), an index above the maximum, has left the
\* current index at 114.
C17_Witness ==
    /\ last.op = "get_surah"
    /\ last.args[1] > max_surah_number
    /\ self.type = 1
    /\ self.current_pos = max_surah_number
    /\ InBounds(self)

\* the calls that query the storage and render
NavOps ==
    SelectorOps \cup LocateOps \cup {"next", "back", "goto", "get_range"}

\* the global numbers of the stored verse list, and the verse ids of the
\* stored Position Index, in order
ListNumbers(s) == [i \in 1..Len(s.data_list) |-> s.data_list[i].number]
IndexVerses(s) == [i \in 1..Len(s.ayah_data.spans) |-> s.ayah_data.spans[i].ayah]

\* C18 (as claimed): after every select, next, previous, goto, range or locate
\* call that returns, the verse ids of the stored Position Index are exactly
\* the global numbers of the stored verse list; when the query yielded no
\* verses the call returned empty text and the stored blob and Position Index
\* are empty.
C18_StoredRenderIsOfStoredList ==
    (last.op \in NavOps /\ self.exc = NoExc)
    => /\ IndexVerses(self) = ListNumbers(self)
       /\ self.data_list = Empty
          => (self.ret = EmptyText /\ self.text = Empty
              /\ self.ayah_data.spans = Empty)

\* the length of what get_text emits for a verse: the chapter header before a
\* first verse, the verse text, the number in brackets if shown, the separator
EmittedLen(s, ayah) ==
    (IF ayah.numberInSurah = 1
        THEN Len(ayah.sura_name) + 1 + Len(Str(ayah.sura_number)) + 3
        ELSE 0)
    + Len(ayah.text)
    + (IF s.show_ayah_number THEN 3 + Len(Str(ayah.numberInSurah)) ELSE 0)
    + 1

\* C19: after any render of a non-empty verse list the Position Index has one
\* span per verse, in increasing offset order; the first span starts at offset
\* 0, each following span starts one past the end of the span before it, each
\* span is as long as the text emitted for its verse, and no global verse
\* number appears twice.
C19_SpansTileTheRender ==
    self.data_list # Empty
    => \A sp \in {self.ayah_data.spans} :
          /\ Len(sp) = Len(self.data_list)
          /\ sp[1].first = 0
          /\ \A i \in 1..Len(sp) :
                /\ sp[i].first <= sp[i].last
                /\ sp[i].last - sp[i].first + 1 = EmittedLen(self, self.data_list[i])
                /\ i > 1 => sp[i].first = sp[i - 1].last + 1
                /\ \A j \in 1..Len(sp) : sp[i].ayah = sp[j].ayah => i = j

\* C19 witness: the render of verses 6 to 9, which holds the header of chapter
\* 2 at verse 8, has four spans and the third starts right after the second.
C19_Witness ==
    /\ last.op = "get_range"
    /\ last.args = <<PyInt(1), PyInt(6), PyInt(2), PyInt(2)>>
    /\ Len(self.ayah_data.spans) = 4
    /\ self.ayah_data.spans[1].first = 0
    /\ self.ayah_data.spans[3].ayah = 8
    /\ self.ayah_data.spans[3].first = self.ayah_data.spans[2].last + 1
    /\ self.ayah_data.spans[3].last - self.ayah_data.spans[3].first + 1
          = EmittedLen(self, quran[8])

\* C20 (as claimed): after any render, under both settings of aya_to_line,
\* every span end of the Position Index is at most len(blob) - 1.
C20_SpanEndsAreValidOffsets ==
    self.data_list # Empty
    => \A i \in 1..Len(self.ayah_data.spans) :
          self.ayah_data.spans[i].last <= Len(self.text) - 1

\* C20 (amended): after any render every span start is a valid offset of the
\* returned blob and so is every span end but the last one; the last span ends
\* at len(blob) - 1 when aya_to_line is off and at len(blob), the place of the
\* stripped final line break, when it is on.
C20_OnlyTheLastSpanEndPassesTheBlob ==
    self.data_list # Empty
    => \A sp \in {self.ayah_data.spans} :
          /\ \A i \in 1..Len(sp) :
                /\ sp[i].first \in Offsets(self.text)
                /\ i < Len(sp) => sp[i].last \in Offsets(self.text)
          /\ sp[Len(sp)].last =
                (IF self.aya_to_line THEN Len(self.text) ELSE Len(self.text) - 1)

\* C20 witness: a unit of several verses rendered one verse per line; its last
\* span ends one past the last offset of the blob.
C20_Witness ==
    /\ last.op = "get_hizb"
    /\ self.aya_to_line
    /\ Len(self.ayah_data.spans) > 1
    /\ self.text # Empty
    /\ self.ret = RetStr(self.text)
    /\ self.ayah_data.spans[Len(self.ayah_data.spans)].last = Len(self.text)

\* the state is Range: the tag get_range assigns
InRange(s) == s.type = 5

\* C21: once get_range has set the state to Range, next(), back() and goto(i)
\* with i >= 1 return empty text and leave the state Range with its verse list,
\* blob and Position Index unchanged; only get_range enters the Range state.
C21_RangeIsTerminal ==
    [][/\ (/\ InRange(self)
           /\ \/ last'.op \in {"next", "back"}
              \/ (last'.op = "goto" /\ last'.args[1] >= 1))
          => (/\ self'.ret = EmptyText
              /\ self'.exc = NoExc
              /\ NavState(self') = NavState(self))
       /\ (InRange(self') /\ ~InRange(self)) => last'.op = "get_range"]_vars

\* C21 witness: goto(1) has just returned empty text in the Range state, whose
\* rendered verses are still stored.
C21_Witness ==
    /\ InRange(self)
    /\ last.op = "goto"
    /\ last.args[1] >= 1
    /\ self.ret = EmptyText
    /\ self.data_list # Empty
    /\ self.text # Empty

\* the calls that act on the category the navigator is in
CategoryOps == {"next", "back", "goto", "get_by_ayah_number"}

\* C22 (as claimed): next, back, goto and get_by_ayah_number invoked while the
\* category tag is outside the five fail the call, and none of them goes on
\* under a default category.
C22_InvalidCategoryFailsTheCall ==
    [][(last'.op \in CategoryOps /\ self.type \notin Categories)
       => (/\ self'.exc # NoExc
           /\ self'.type = self.type)]_vars

\* C23: select(C, i) with i < 1 does not correct the index: the query is made
\* with i and yields no rows, the call returns empty text, and the stored
\* current index is i.
C23_IndexBelowOneIsKept ==
    (last.op \in SelectorOps /\ last.args[1] < 1)
    => (/\ SelectUnit(SelectorCat[last.op], last.args[1]) = Empty
        /\ self.data_list = Empty
        /\ self.ret = EmptyText
        /\ self.exc = NoExc
        /\ self.type = SelectorCat[last.op]
        /\ self.current_pos = last.args[1])

\* C23 witness: get_surah(0) has returned empty text with current index 0 while
\* the text of an earlier render is still stored.
C23_Witness ==
    /\ last.op = "get_surah"
    /\ last.args[1] = 0
    /\ self.current_pos = 0
    /\ self.ret = EmptyText
    /\ self.text # Empty

\* the chapter header and the number in brackets get_text puts around a verse
ChapterHeader(ayah) ==
    ayah.sura_name \o <<" ">> \o Str(ayah.sura_number) \o <<"\n", "|", "\n">>

NumberSuffix(s, ayah) ==
    IF s.show_ayah_number
        THEN <<" ", "(">> \o Str(ayah.numberInSurah) \o <<")">>
        ELSE Empty

\* t with a line break in the place right after every invocation phrase in it
BreakAfterPhrase(t) ==
    [j \in 1..Len(t) |->
        IF \E k \in Occurrences(t, Bismillah) : j = k + Len(Bismillah) + 1
            THEN "\n" ELSE t[j]]

\* what the blob shows for verse i of the list, without the separator ending it
Shown(s, i) ==
    SubSeq(s.text, s.ayah_data.spans[i].first + 1, s.ayah_data.spans[i].last)

\* C24: in a render, a first verse of chapter 1 keeps the invocation phrase
\* inline after its chapter header; a first verse of any other chapter that
\* holds the phrase has a line break right after the phrase; a verse whose
\* in-chapter number is not 1 is shown as stored, with no chapter header.
C24_InvocationPhraseBreak ==
    self.data_list # Empty
    => \A i \in 1..Len(self.data_list) :
          \A ayah \in {self.data_list[i]} :
             \A shown \in {Shown(self, i)} :
                /\ ayah.numberInSurah # 1
                      => shown = ayah.text \o NumberSuffix(self, ayah)
                /\ (ayah.numberInSurah = 1 /\ ayah.sura_number = 1)
                      => shown = ChapterHeader(ayah) \o ayah.text
                                    \o NumberSuffix(self, ayah)
                /\ (ayah.numberInSurah = 1 /\ ayah.sura_number # 1)
                      => shown = ChapterHeader(ayah) \o BreakAfterPhrase(ayah.text)
                                    \o NumberSuffix(self, ayah)

\* C24 witness: chapter 2 is rendered: its first verse has the line break after
\* the phrase, and its third verse, which ends with the phrase, keeps it inline.
C24_Witness ==
    /\ self.type = 1
    /\ self.current_pos = 2
    /\ self.data_list # Empty
    /\ self.data_list[1].number = 8
    /\ Contains(quran[8].text, Bismillah)
    /\ Contains(Shown(self, 1), Bismillah \o <<"\n">>)
    /\ ~Contains(Shown(self, 1), Bismillah \o <<" ">>)
    /\ self.data_list[3].number = QuotingVerse
    /\ Contains(Shown(self, 3), Bismillah \o NumberSuffix(self, quran[QuotingVerse]))

\* C25 (as claimed): in every state of the window after startup and any events,
\* the next button is enabled exactly when current index < max of the current
\* category, and the back button exactly when current index > 1.
C25_StepButtonsFollowPosition ==
    (self.alive /\ self.quran.type \in Categories)
    => /\ self.next_to <=> (self.quran.current_pos < MaxOf(self.quran.type))
       /\ self.back_to <=> (self.quran.current_pos > 1)

\* the window shows, with the cursor at the start of verse v, the unit the
\* saved position names
Restored(ui, position_data) ==
    /\ ui.alive
    /\ ui.quran.type = position_data.criteria_number
    /\ ui.quran.current_pos = position_data.position
    /\ ui.quran.data_list # Empty
    /\ ui.quran_view = ui.quran.text
    /\ ~ui.quran.ayah_data.isNone
    /\ AyahData_get_position(ui.quran.ayah_data.spans, position_data.ayah_number)
          = SomeInt(ui.cursor)

\* C26 (as claimed): a start of the application after OnSaveCurrentPosition saved
\* (category C, index i, verse v) restores category C and index i, shows that
\* unit and puts the cursor at the start of v's span in the new Position Index,
\* whatever state the position was saved in, a Range state included.
C26_SavedPositionIsRestored ==
    [][last'.op = "QuranInterface" => Restored(self', self.position_data)]_vars

\* the stored bound is that of the category the navigator is in
BoundMatches(s) == s.type \in Categories => s.max_pos = MaxOf(s.type)

\* C27 (as claimed): when a navigator operation compares against the bound or
\* has updated it, and the category is one of the five, max_pos = max(category);
\* also where the window assigns the category tag itself and then calls goto
\* (set_text) or get_by_ayah_number (go_to_bookmark).
C27_BoundIsThatOfTheCategory ==
    [][/\ BoundMatches(self'.quran)
       /\ last'.op = "QuranInterface"
             => BoundMatches(set_text_type(NewWindow(self.position_data,
                                                     self.bookmarks)))]_vars

\* C28 (as claimed): after every OnNext or OnBack the text the view shows is the
\* navigator's stored blob; an event at a bound leaves the shown text as it was.
C28_ViewShowsTheStoredBlob ==
    [][last'.op \in {"OnNext", "OnBack"}
       => self'.quran_view = self'.quran.text]_vars

\* C29 (as claimed): next(), back() and goto(i), for every i and from every
\* reachable state, the Range state included, leave the current category as it is.
C29_StepsKeepTheCategory ==
    [][last'.op \in {"next", "back", "goto"} => self'.type = self.type]_vars

\* C30 (as claimed): a get_by_ayah_number call that fails, for an unknown verse
\* number or under a category outside the five, leaves category, current index,
\* bound, verse list, blob and Position Index as they were before the call.
C30_FailedLocateChangesNothing ==
    [][(last'.op = "get_by_ayah_number" /\ self'.exc # NoExc)
       => NavState(self') = NavState(self)]_vars

\* the walk: the category and the index selected, the steps made since
WalkCat == last.args[1]
WalkStart == last.args[2]
WalkCount == last.args[3]

\* C31, the position: after k next() calls from select(C, i) the index is
\* min(i + k, max(C)) and a call made at max(C) returned empty text; after k
\* back() calls it is max(i - k, 1) and a call made at 1 returned empty text;
\* the category stays C and the stored unit is the one select would render.
WalkPosition ==
    /\ last.op = "next"
          => /\ self.type = WalkCat
             /\ self.current_pos = Min2(WalkStart + WalkCount, MaxOf(WalkCat))
             /\ (WalkStart + WalkCount > MaxOf(WalkCat)) <=> (self.ret = EmptyText)
             /\ self.text = select(self, WalkCat, self.current_pos).text
    /\ last.op = "back"
          => /\ self.type = WalkCat
             /\ self.current_pos = Max2(WalkStart - WalkCount, 1)
             /\ (WalkStart - WalkCount < 1) <=> (self.ret = EmptyText)
             /\ self.text = select(self, WalkCat, self.current_pos).text

\* C31: starting from select(C, i) with 1 <= i <= max(C), after k consecutive
\* next() calls the current index is min(i + k, max(C)); repeated next()
\* eventually reaches max(C), after which every further next() returns empty
\* text and stays there; repeated back() eventually reaches 1 and stays there.
C31_RepeatedStepsReachTheBound ==
    /\ []WalkPosition
    /\ (last.op = "next") ~> [](last.op = "next" /\ self.current_pos = MaxOf(WalkCat))
    /\ (last.op = "back") ~> [](last.op = "back" /\ self.current_pos = 1)

\* C31 witness: a walk started two units before the last quarter has reached
\* the last quarter, and the call after that returned empty text.
C31_Witness ==
    /\ last.op = "next"
    /\ WalkCat = 2
    /\ WalkStart = max_hizb_quarter - 2
    /\ WalkCount = 3
    /\ self.current_pos = max_hizb_quarter
    /\ self.ret = EmptyText
    /\ self.text # Empty

====
